---- MODULE Spec2Model ----
(***************************************************************************)
(* weather_parser: the concurrent collection pipeline and its              *)
(* freshness-gated persistence.                                            *)
(*                                                                         *)
(*   shared/async_parser.py        fetch_city_weather,                     *)
(*                                 fetch_all_cities_async                  *)
(*   shared/database.py            get_last_weather_record, is_data_fresh, *)
(*                                 save_weather_data                       *)
(*   airflow/dags/async_weather_dag.py   save_results_to_db, the DAG       *)
(*   celery_worker/tasks.py        save_weather_task                       *)
(*                                                                         *)
(* Time is one wall clock counted in ticks of TickMinutes minutes; the     *)
(* database's now() and the caller's datetime.now() read the same clock.   *)
(* City keys are the numbers 1, 2, 3, ...                                  *)
(***************************************************************************)
EXTENDS Integers, Sequences, FiniteSets, TLC

\* ------------------------------------------------------------- bounds
TickMinutes == 15      \* minutes per clock tick
MaxClock == 2          \* the clock stops after this many ticks
MaxRuns == 2           \* pipeline runs per behaviour
MaxCalls == 2          \* calls of the callers outside the DAG, together
MaxFaults == 1         \* database failures per behaviour
MaxInits == 2          \* calls of init_db per caller of init_db alone
MaxLatency == 2        \* the slowest answer that comes within the timeout

\* ------------------------------------------------ program constants
limit_per_host == 10           \* aiohttp.TCPConnector(limit_per_host=10)
timeout == 10                  \* session.get(url, params=params, timeout=10)
DAG_MIN_AGE_MINUTES == 30      \* save_results_to_db: min_age_minutes=30
DEFAULT_MIN_AGE_MINUTES == 30  \* os.getenv('MIN_AGE_MINUTES', '30')

\* ------------------------------------------------------ optional values
None == <<>>
Some(x) == <<x>>
Val(o) == o[1]

Max(S) == CHOOSE m \in S : \A n \in S : n <= m

\* ---------------------------------------------------------- the upstream
\* The JSON body the weather service answers for a city: main.temp in
\* hundredths of a degree, and wind.speed / clouds.all present or not.
UpstreamJson(city, sparse) ==
  [ temp        |-> 1000 + 123 * city,
    humidity    |-> 50 + city,
    pressure    |-> 1000 + city,
    description |-> "clear",
    wind_speed  |-> IF sparse THEN None ELSE Some(3),
    clouds_all  |-> IF sparse THEN None ELSE Some(40) ]

\* What one request can meet: an HTTP answer (status, body), or a transport
\* error.  A body of None is one that response.json() or the field lookups
\* reject.  "raise" is an exception that leaves the coroutine (raised inside
\* one of its handlers).
HttpOk(city, sparse) == [kind |-> "http", status |-> 200, body |-> Some(UpstreamJson(city, sparse))]
HttpBadBody == [kind |-> "http", status |-> 200, body |-> None]
HttpStatus(s) == [kind |-> "http", status |-> s, body |-> None]
TransportError == [kind |-> "neterr", status |-> 0, body |-> None]
Raised == [kind |-> "raise", status |-> 0, body |-> None]
TimedOut == [kind |-> "timeout", status |-> 0, body |-> None]
\* The coroutine is cancelled at an await: asyncio.CancelledError, a
\* BaseException, passes both of fetch_city_weather's handlers.
Cancelled == [kind |-> "cancel", status |-> 0, body |-> None]

Responses(city) ==
  { HttpOk(city, FALSE), HttpOk(city, TRUE), HttpBadBody,
    HttpStatus(401), HttpStatus(500), TransportError, Raised }

\* The answers of an upstream that is healthy unless it is silent.
PlainResponses(city) == { HttpOk(city, FALSE) }

\* The answers met in a pipeline run: success, or a refusal.
RunResponses(city) == { HttpOk(city, FALSE), HttpStatus(401) }

\* round(x, 1) on a temperature in hundredths: the nearest tenth; an exact
\* tie goes to the even tenth.
Round1(h) ==
  LET r == h % 10
      lo == h - r
  IN  IF r < 5 THEN lo
      ELSE IF r > 5 THEN lo + 10
      ELSE IF (lo \div 10) % 2 = 0 THEN lo ELSE lo + 10

\* Results of a task as asyncio.gather(return_exceptions=True) collects them.
NoneResult == [tag |-> "None"]
ExceptionResult == [tag |-> "Exception"]
CancelledResult == [tag |-> "CancelledError"]
DictResult(d) == [tag |-> "dict", d |-> d]

\* fetch_city_weather with 'city' taken from the answer instead of the key.
fetch_city_weather_name(city, response) ==
  IF response.kind = "http" /\ response.status = 200 /\ response.body # None
  THEN LET data == Val(response.body)
       IN DictResult([ city        |-> 0,
                       temperature |-> Round1(data.temp),
                       humidity    |-> data.humidity,
                       pressure    |-> data.pressure,
                       description |-> data.description,
                       wind_speed  |-> IF data.wind_speed = None THEN Some(0) ELSE data.wind_speed,
                       clouds      |-> IF data.clouds_all = None THEN Some(0) ELSE data.clouds_all ])
  ELSE IF response.kind = "raise" THEN ExceptionResult
  ELSE IF response.kind = "cancel" THEN CancelledResult
  ELSE NoneResult

\* fetch_city_weather without its handler for asyncio.TimeoutError.
fetch_city_weather_no_timeout_handler(city, response) ==
  IF response.kind = "http"
  THEN IF response.status = 200
       THEN IF response.body = None
            THEN NoneResult                      \* except Exception
            ELSE LET data == Val(response.body)
                 IN DictResult([ city        |-> city,
                                 temperature |-> Round1(data.temp),
                                 humidity    |-> data.humidity,
                                 pressure    |-> data.pressure,
                                 description |-> data.description,
                                 wind_speed  |-> IF data.wind_speed = None THEN Some(0) ELSE data.wind_speed,
                                 clouds      |-> IF data.clouds_all = None THEN Some(0) ELSE data.clouds_all ])
       ELSE NoneResult                           \* 401, any other status
  ELSE IF response.kind = "raise" THEN ExceptionResult
  ELSE IF response.kind = "cancel" THEN CancelledResult
  ELSE IF response.kind = "timeout" THEN ExceptionResult
  ELSE NoneResult                                \* Exception

\* fetch_city_weather: the mapping of what the request met to the
\* coroutine's result.
fetch_city_weather(city, response) ==
  IF response.kind = "http"
  THEN IF response.status = 200
       THEN IF response.body = None
            THEN NoneResult                      \* except Exception
            ELSE LET data == Val(response.body)
                 IN DictResult([ city        |-> city,
                                 temperature |-> Round1(data.temp),
                                 humidity    |-> data.humidity,
                                 pressure    |-> data.pressure,
                                 description |-> data.description,
                                 wind_speed  |-> IF data.wind_speed = None THEN Some(0) ELSE data.wind_speed,
                                 clouds      |-> IF data.clouds_all = None THEN Some(0) ELSE data.clouds_all ])
       ELSE NoneResult                           \* 401, any other status
  ELSE IF response.kind = "raise" THEN ExceptionResult
  ELSE IF response.kind = "cancel" THEN CancelledResult
  ELSE NoneResult                                \* TimeoutError, Exception

\* ------------------------------------------------------------ the store
\* get_last_weather_record's query: the rows of the city, newest first,
\* LIMIT 1.  Rows with equal created_at are tied and the database returns
\* any one of them.
CityRows(rows, city) == { r \in rows : r.city = city }

LatestRows(rows, city) ==
  { r \in CityRows(rows, city) : \A q \in CityRows(rows, city) : q.created_at <= r.created_at }

\* is_data_fresh with the age left in seconds.
is_data_fresh_seconds(last_record, now, min_age_minutes) ==
  IF last_record = None
  THEN [is_fresh |-> FALSE, last_record |-> None, age_minutes |-> None]
  ELSE LET age_minutes == (now - Val(last_record).created_at) * TickMinutes * 60
       IN [ is_fresh     |-> age_minutes < min_age_minutes,
            last_record  |-> last_record,
            age_minutes  |-> Some(age_minutes) ]

\* is_data_fresh with the comparison turned round.
is_data_fresh_reversed(last_record, now, min_age_minutes) ==
  IF last_record = None
  THEN [is_fresh |-> FALSE, last_record |-> None, age_minutes |-> None]
  ELSE LET age_minutes == (now - Val(last_record).created_at) * TickMinutes
       IN [ is_fresh     |-> age_minutes > min_age_minutes,
            last_record  |-> last_record,
            age_minutes  |-> Some(age_minutes) ]

\* is_data_fresh reporting a city without a record as fresh.
is_data_fresh_none_is_fresh(last_record, now, min_age_minutes) ==
  IF last_record = None
  THEN [is_fresh |-> TRUE, last_record |-> None, age_minutes |-> None]
  ELSE LET age_minutes == (now - Val(last_record).created_at) * TickMinutes
       IN [ is_fresh     |-> age_minutes < min_age_minutes,
            last_record  |-> last_record,
            age_minutes  |-> Some(age_minutes) ]

\* is_data_fresh with <= for <.
is_data_fresh_inclusive(last_record, now, min_age_minutes) ==
  IF last_record = None
  THEN [is_fresh |-> FALSE, last_record |-> None, age_minutes |-> None]
  ELSE LET age_minutes == (now - Val(last_record).created_at) * TickMinutes
       IN [ is_fresh     |-> age_minutes <= min_age_minutes,
            last_record  |-> last_record,
            age_minutes  |-> Some(age_minutes) ]

\* is_data_fresh, after its read: (is_fresh, last_record, age_minutes).
is_data_fresh(last_record, now, min_age_minutes) ==
  IF last_record = None
  THEN [is_fresh |-> FALSE, last_record |-> None, age_minutes |-> None]
  ELSE LET age_minutes == (now - Val(last_record).created_at) * TickMinutes
       IN [ is_fresh     |-> age_minutes < min_age_minutes,
            last_record  |-> last_record,
            age_minutes  |-> Some(age_minutes) ]

\* WeatherData(...) built with the temperature as it was given.
WeatherData_unrounded(obs, id, now) ==
  [ id          |-> id,
    city        |-> obs.city,
    temperature |-> obs.temperature,
    humidity    |-> obs.humidity,
    pressure    |-> obs.pressure,
    description |-> obs.description,
    wind_speed  |-> obs.wind_speed,
    clouds      |-> obs.clouds,
    created_at  |-> now ]

\* WeatherData(...) as save_weather_data builds it, with the id and the
\* created_at the database assigns.
WeatherData(obs, id, now) ==
  [ id          |-> id,
    city        |-> obs.city,
    temperature |-> Round1(obs.temperature),
    humidity    |-> obs.humidity,
    pressure    |-> obs.pressure,
    description |-> obs.description,
    wind_speed  |-> obs.wind_speed,
    clouds      |-> obs.clouds,
    created_at  |-> now ]

\* The dicts save_weather_data returns (the message is left out).
SkippedResult(age_minutes) ==
  [saved |-> FALSE, skipped |-> TRUE, reason |-> "skipped_fresh", age_minutes |-> age_minutes]
SavedResult ==
  [saved |-> TRUE, skipped |-> FALSE, reason |-> "saved", age_minutes |-> None]
ErrorResult ==
  [saved |-> FALSE, skipped |-> FALSE, reason |-> "error", age_minutes |-> None]

\* ------------------------------------------------------------- the state
Procs == {"dag", "w1", "w2"}      \* the DAG's save task and two other callers
Workers == {"w1", "w2"}
Initers == {"i1", "i2"}           \* callers of init_db alone

VARIABLES
  clock,              \* the wall clock, in ticks
  store,              \* the committed rows of weather_data
  nextId,             \* the next value of the id sequence
  prov,               \* history: per row id, the call that inserted it
  faults,             \* history: database failures so far
  call,               \* per caller: its activation of save_weather_data
  gate,               \* per caller: what is_data_fresh returned in this call
  ret,                \* per caller: what save_weather_data returned
  ncalls,             \* calls the workers made so far
  status,             \* per worker: the status save_weather_task returned
  dagpc,              \* the DAG run: "idle", "parse" or "save"
  cities,             \* op_args of async_parse_all_cities
  task,               \* fetch_all_cities_async: one entry per coroutine
  deadline,           \* the requests' timeout=10 has elapsed
  elapsed,            \* time units since the gather() started
  latency,            \* per key: the time units its request takes upstream
  weather_data_list,  \* the XCom value: what fetch_all_cities_async returned
  idx,                \* save_results_to_db: position in weather_data_list
  saved_count,        \* save_results_to_db: saved_count
  skipped_count,      \* save_results_to_db: skipped_count
  outcomes,           \* history: how each element of this run's loop ended
  runs,               \* DAG runs finished
  runLog,             \* history: one summary per finished run
  has_table,          \* the database has the table weather_data
  has_index,          \* the database has idx_weather_data_city_created
  init                \* per caller of init_db alone: its activation

dbvars == <<clock, store, nextId, prov, faults>>
callvars == <<call, gate, ret, ncalls, status>>
timevars == <<elapsed, latency>>
fetchvars == <<cities, task, deadline, elapsed, latency>>
loopvars == <<weather_data_list, idx, saved_count, skipped_count, outcomes>>
runvars == <<dagpc, runs, runLog>>
schemavars == <<has_table, has_index, init>>
vars == <<clock, store, nextId, prov, faults, call, gate, ret, ncalls, status,
          dagpc, cities, task, deadline, elapsed, latency,
          weather_data_list, idx,
          saved_count, skipped_count, outcomes, runs, runLog,
          has_table, has_index, init>>

NoObs == [city |-> 0, temperature |-> 0, humidity |-> 0, pressure |-> 0,
          description |-> "", wind_speed |-> None, clouds |-> None]

IdleCall ==
  [pc |-> "idle", kind |-> "none", obs |-> NoObs, min_age_minutes |-> 0,
   skip_if_fresh |-> TRUE, last |-> None, nrows |-> 0, readAt |-> 0,
   readfail |-> FALSE]

\* The key lists a run is given: distinct keys, or the same key twice.
KeyLists == { <<>>, <<1>>, <<1, 2>>, <<1, 2, 3>>, <<1, 1>> }

\* One key more than the connector admits at a time.
LongList == [i \in 1..(limit_per_host + 1) |-> i]

\* No call of init_db in progress.
IdleInit ==
  [pc |-> "idle", table_exists |-> FALSE, index_exists |-> FALSE,
   result |-> None, calls |-> 0, done |-> 0]

InitProgram(lists) ==
  /\ clock = 0
  /\ store = {}
  /\ nextId = 1
  /\ prov = <<>>
  /\ faults = 0
  /\ call = [p \in Procs |-> IdleCall]
  /\ gate = [p \in Procs |-> None]
  /\ ret = [p \in Procs |-> None]
  /\ ncalls = 0
  /\ status = [p \in Workers |-> None]
  /\ dagpc = "idle"
  /\ cities \in lists
  /\ task = <<>>
  /\ deadline = FALSE
  /\ elapsed = 0
  /\ weather_data_list = <<>>
  /\ idx = 1
  /\ saved_count = 0
  /\ skipped_count = 0
  /\ outcomes = <<>>
  /\ runs = 0
  /\ runLog = <<>>
  /\ init = [p \in Initers |-> IdleInit]

\* The schema is in place: init_db has run before (the DAG's
\* initialize_database task, every get_session()).
InitWith(lists) ==
  /\ InitProgram(lists)
  /\ latency = <<>>
  /\ has_table = TRUE
  /\ has_index = TRUE

Init == InitWith(KeyLists)

\* ------------------------------------------------------------- the clock
Tick ==
  /\ clock < MaxClock
  /\ clock' = clock + 1
  /\ UNCHANGED <<store, nextId, prov, faults>>
  /\ UNCHANGED <<callvars, fetchvars, loopvars, runvars>>
  /\ UNCHANGED schemavars

\* ------------------------------------------------------ save_weather_data
\* AfterReturn counting every processed element as saved.
AfterReturn_count_all(p, result) ==
  IF p = "dag"
  THEN /\ saved_count' = saved_count + 1
       /\ skipped_count' = IF ~result.saved /\ result.skipped THEN skipped_count + 1 ELSE skipped_count
       /\ idx' = idx + 1
       /\ outcomes' = Append(outcomes, result.reason)
       /\ UNCHANGED <<weather_data_list, status>>
  ELSE /\ status' = IF call[p].kind = "celery"
                     THEN [status EXCEPT ![p] = Some("success")]
                     ELSE status
       /\ UNCHANGED loopvars

\* AfterReturn counting as skipped whatever was not saved (else instead of
\* elif result['skipped']).
AfterReturn_unsaved_is_skipped(p, result) ==
  IF p = "dag"
  THEN /\ saved_count' = IF result.saved THEN saved_count + 1 ELSE saved_count
       /\ skipped_count' = IF ~result.saved THEN skipped_count + 1 ELSE skipped_count
       /\ idx' = idx + 1
       /\ outcomes' = Append(outcomes, result.reason)
       /\ UNCHANGED <<weather_data_list, status>>
  ELSE /\ status' = IF call[p].kind = "celery"
                     THEN [status EXCEPT ![p] = Some("success")]
                     ELSE status
       /\ UNCHANGED loopvars

\* AfterReturn leaving the loop at the first result with reason 'error'.
AfterReturn_stop_on_error(p, result) ==
  IF p = "dag"
  THEN /\ saved_count' = IF result.saved THEN saved_count + 1 ELSE saved_count
       /\ skipped_count' = IF ~result.saved /\ result.skipped THEN skipped_count + 1 ELSE skipped_count
       /\ idx' = IF result.reason = "error" THEN Len(weather_data_list) + 1 ELSE idx + 1
       /\ outcomes' = Append(outcomes, result.reason)
       /\ UNCHANGED <<weather_data_list, status>>
  ELSE /\ status' = IF call[p].kind = "celery"
                     THEN [status EXCEPT ![p] = Some("success")]
                     ELSE status
       /\ UNCHANGED loopvars

\* What the caller does with the returned dict.
\*   dag: save_results_to_db counts it and moves to the next element.
\*   celery: save_weather_task tests the dict itself (`if success:`).
AfterReturn(p, result) ==
  IF p = "dag"
  THEN /\ saved_count' = IF result.saved THEN saved_count + 1 ELSE saved_count
       /\ skipped_count' = IF ~result.saved /\ result.skipped THEN skipped_count + 1 ELSE skipped_count
       /\ idx' = idx + 1
       /\ outcomes' = Append(outcomes, result.reason)
       /\ UNCHANGED <<weather_data_list, status>>
  ELSE /\ status' = IF call[p].kind = "celery"
                     THEN [status EXCEPT ![p] = Some("success")]
                     ELSE status
       /\ UNCHANGED loopvars

Return(p, result) ==
  /\ call' = [call EXCEPT ![p].pc = "idle"]
  /\ ret' = [ret EXCEPT ![p] = Some(result)]
  /\ AfterReturn(p, result)

\* Begin running the gate whatever skip_if_fresh says.
Begin_always_gate(p, kind, obs, min_age_minutes, skip_if_fresh) ==
  /\ call[p].pc = "idle"
  /\ call' = [call EXCEPT ![p] =
                [pc |-> "gate",
                 kind |-> kind, obs |-> obs,
                 min_age_minutes |-> min_age_minutes,
                 skip_if_fresh |-> skip_if_fresh,
                 last |-> None, nrows |-> 0, readAt |-> 0, readfail |-> FALSE]]
  /\ gate' = [gate EXCEPT ![p] = None]
  /\ ret' = [ret EXCEPT ![p] = None]

\* The call is entered and get_session() returns (the schema exists, so
\* init_db only checks it).
Begin(p, kind, obs, min_age_minutes, skip_if_fresh) ==
  /\ call[p].pc = "idle"
  /\ call' = [call EXCEPT ![p] =
                [pc |-> IF skip_if_fresh THEN "gate" ELSE "insert",
                 kind |-> kind, obs |-> obs,
                 min_age_minutes |-> min_age_minutes,
                 skip_if_fresh |-> skip_if_fresh,
                 last |-> None, nrows |-> 0, readAt |-> 0, readfail |-> FALSE]]
  /\ gate' = [gate EXCEPT ![p] = None]
  /\ ret' = [ret EXCEPT ![p] = None]

\* is_data_fresh -> get_last_weather_record: the query.
GateRead(p) ==
  /\ call[p].pc = "gate"
  /\ LET rows == LatestRows(store, call[p].obs.city)
     IN \E last \in (IF rows = {} THEN {None} ELSE { Some(r) : r \in rows }) :
          call' = [call EXCEPT ![p].pc = "decide", ![p].last = last,
                               ![p].nrows = Cardinality(CityRows(store, call[p].obs.city)),
                               ![p].readAt = nextId]
  /\ UNCHANGED <<gate, ret, ncalls, status>>
  /\ UNCHANGED <<dbvars, fetchvars, loopvars, runvars>>
  /\ UNCHANGED schemavars

\* get_last_weather_record: the query raises; the handler returns None.
GateReadFail(p) ==
  /\ call[p].pc = "gate"
  /\ faults < MaxFaults
  /\ faults' = faults + 1
  /\ call' = [call EXCEPT ![p].pc = "decide", ![p].last = None,
                          ![p].nrows = Cardinality(CityRows(store, call[p].obs.city)),
                          ![p].readAt = nextId,
                          ![p].readfail = TRUE]
  /\ UNCHANGED <<gate, ret, ncalls, status>>
  /\ UNCHANGED <<clock, store, nextId, prov>>
  /\ UNCHANGED <<fetchvars, loopvars, runvars>>
  /\ UNCHANGED schemavars

\* get_last_weather_record: get_session() raises before the try (the
\* database is not reached); the exception passes through is_data_fresh
\* into save_weather_data's handler: rollback, reason 'error'.
GateSessionFail(p) ==
  /\ call[p].pc = "gate"
  /\ faults < MaxFaults
  /\ faults' = faults + 1
  /\ Return(p, ErrorResult)
  /\ UNCHANGED <<gate, ncalls>>
  /\ UNCHANGED <<clock, store, nextId, prov>>
  /\ UNCHANGED <<fetchvars, runvars>>
  /\ UNCHANGED schemavars

\* is_data_fresh computes the age at datetime.now(); save_weather_data
\* returns skipped_fresh or goes on to the insert.
GateDecide(p) ==
  /\ call[p].pc = "decide"
  /\ LET out == is_data_fresh(call[p].last, clock, call[p].min_age_minutes)
     IN /\ gate' = [gate EXCEPT ![p] = Some([now |-> clock, out |-> out])]
        /\ IF out.is_fresh
           THEN Return(p, SkippedResult(out.age_minutes))
           ELSE /\ call' = [call EXCEPT ![p].pc = "insert"]
                /\ UNCHANGED <<ret, status, loopvars>>
  /\ UNCHANGED ncalls
  /\ UNCHANGED <<dbvars, fetchvars, runvars>>
  /\ UNCHANGED schemavars

\* The insert replacing the rows the city already has.
Commit_upsert(p) ==
  /\ call[p].pc = "insert"
  /\ store' = (store \ CityRows(store, call[p].obs.city))
                \cup { WeatherData(call[p].obs, nextId, clock) }
  /\ nextId' = nextId + 1
  /\ prov' = Append(prov, [by |-> p,
                           run |-> IF p = "dag" THEN runs + 1 ELSE 0,
                           kind |-> call[p].kind,
                           obs |-> call[p].obs,
                           skip_if_fresh |-> call[p].skip_if_fresh,
                           min_age_minutes |-> call[p].min_age_minutes,
                           readfail |-> call[p].readfail,
                           readAt |-> call[p].readAt,
                           saw |-> IF call[p].last = None THEN 0 ELSE Val(call[p].last).id])
  /\ Return(p, SavedResult)
  /\ UNCHANGED <<clock, faults, gate, ncalls>>
  /\ UNCHANGED <<fetchvars, runvars>>
  /\ UNCHANGED schemavars

\* session.add(weather); session.commit(): the row gets the next id and
\* created_at = now().
Commit(p) ==
  /\ call[p].pc = "insert"
  /\ store' = store \cup { WeatherData(call[p].obs, nextId, clock) }
  /\ nextId' = nextId + 1
  /\ prov' = Append(prov, [by |-> p,
                           run |-> IF p = "dag" THEN runs + 1 ELSE 0,
                           kind |-> call[p].kind,
                           obs |-> call[p].obs,
                           skip_if_fresh |-> call[p].skip_if_fresh,
                           min_age_minutes |-> call[p].min_age_minutes,
                           readfail |-> call[p].readfail,
                           readAt |-> call[p].readAt,
                           saw |-> IF call[p].last = None THEN 0 ELSE Val(call[p].last).id])
  /\ Return(p, SavedResult)
  /\ UNCHANGED <<clock, faults, gate, ncalls>>
  /\ UNCHANGED <<fetchvars, runvars>>
  /\ UNCHANGED schemavars

\* The failed commit leaving its row behind all the same.
CommitFail_partial_write(p) ==
  /\ call[p].pc = "insert"
  /\ faults < MaxFaults
  /\ faults' = faults + 1
  /\ Return(p, ErrorResult)
  /\ UNCHANGED <<gate, ncalls>>
  /\ store' = store \cup { WeatherData(call[p].obs, nextId, clock) }
  /\ nextId' = nextId + 1
  /\ prov' = Append(prov, [by |-> p,
                           run |-> IF p = "dag" THEN runs + 1 ELSE 0,
                           kind |-> call[p].kind,
                           obs |-> call[p].obs,
                           skip_if_fresh |-> call[p].skip_if_fresh,
                           min_age_minutes |-> call[p].min_age_minutes,
                           readfail |-> call[p].readfail,
                           readAt |-> call[p].readAt,
                           saw |-> IF call[p].last = None THEN 0 ELSE Val(call[p].last).id])
  /\ UNCHANGED clock
  /\ UNCHANGED <<fetchvars, runvars>>
  /\ UNCHANGED schemavars

\* The commit raises (the database is not reached): session.rollback(),
\* reason 'error'.
CommitFail(p) ==
  /\ call[p].pc = "insert"
  /\ faults < MaxFaults
  /\ faults' = faults + 1
  /\ Return(p, ErrorResult)
  /\ UNCHANGED <<gate, ncalls>>
  /\ UNCHANGED <<clock, store, nextId, prov>>
  /\ UNCHANGED <<fetchvars, runvars>>
  /\ UNCHANGED schemavars

\* ---------------------------------------------------- the other callers
\* The message a Celery producer sends: the temperature is not rounded yet,
\* and save_weather_task passes neither wind_speed nor clouds.
CeleryObs(city) ==
  [ city        |-> city,
    temperature |-> UpstreamJson(city, FALSE).temp,
    humidity    |-> UpstreamJson(city, FALSE).humidity,
    pressure    |-> UpstreamJson(city, FALSE).pressure,
    description |-> UpstreamJson(city, FALSE).description,
    wind_speed  |-> None,
    clouds      |-> None ]

MinAgeChoices == {TickMinutes, DEFAULT_MIN_AGE_MINUTES}

\* save_weather_task(weather_data)
SaveWeatherTask(p, city) ==
  /\ p \in Workers
  /\ ncalls < MaxCalls
  /\ Begin(p, "celery", CeleryObs(city), DEFAULT_MIN_AGE_MINUTES, TRUE)
  /\ ncalls' = ncalls + 1
  /\ status' = [status EXCEPT ![p] = None]
  /\ UNCHANGED <<dbvars, fetchvars, loopvars, runvars>>
  /\ UNCHANGED schemavars

\* save_weather_data(...) called with its keyword arguments given.
DirectCall(p, city, min_age_minutes, skip_if_fresh) ==
  /\ p \in Workers
  /\ ncalls < MaxCalls
  /\ Begin(p, "direct", CeleryObs(city), min_age_minutes, skip_if_fresh)
  /\ ncalls' = ncalls + 1
  /\ status' = [status EXCEPT ![p] = None]
  /\ UNCHANGED <<dbvars, fetchvars, loopvars, runvars>>
  /\ UNCHANGED schemavars

\* No other caller is inside save_weather_data for this city.
Serialized(p, city) ==
  \A q \in Procs \ {p} : call[q].pc = "idle" \/ call[q].obs.city # city

\* ------------------------------------------------- fetch_all_cities_async
Done(t) == t.st = "done"

\* A connector without limit_per_host: every coroutine gets a connection.
NewTask_no_limit(i) ==
  [ st     |-> "inflight",
    issued |-> TRUE,
    met    |-> None,
    result |-> NoneResult ]

\* The coroutines are created and gather() starts them in list order: the
\* first limit_per_host get a connection, the others queue for one.
NewTask(i) ==
  [ st     |-> IF i <= limit_per_host THEN "inflight" ELSE "waiting",
    issued |-> i <= limit_per_host,
    met    |-> None,
    result |-> NoneResult ]

\* A freed connection that is handed to no waiting coroutine.
Promote_none(ts) == ts

\* A connection comes free: the longest-waiting coroutine gets it.
Promote(ts) ==
  LET waiting == { j \in DOMAIN ts : ts[j].st = "waiting" }
  IN  IF waiting = {} THEN ts
      ELSE LET j == CHOOSE k \in waiting : \A m \in waiting : k <= m
           IN [ts EXCEPT ![j].st = "inflight", ![j].issued = TRUE]

\* The DAG run starts: initialize_database, then async_parse_all_cities
\* enters fetch_all_cities_async up to the gather().
RunStart ==
  /\ dagpc = "idle"
  /\ runs < MaxRuns
  /\ dagpc' = "parse"
  /\ task' = [i \in 1..Len(cities) |-> NewTask(i)]
  /\ deadline' = FALSE
  /\ elapsed' = 0
  /\ UNCHANGED <<cities, latency, runs, runLog>>
  /\ UNCHANGED <<dbvars, callvars, loopvars>>
  /\ UNCHANGED schemavars

\* The request of coroutine i meets `response` within its timeout.
Respond(i, response) ==
  /\ dagpc = "parse"
  /\ ~deadline
  /\ i \in DOMAIN task
  /\ task[i].st = "inflight"
  /\ task' = Promote([task EXCEPT ![i].st = "done",
                                  ![i].met = Some(response),
                                  ![i].result = fetch_city_weather(cities[i], response)])
  /\ UNCHANGED <<cities, deadline, timevars>>
  /\ UNCHANGED <<dbvars, callvars, loopvars, runvars>>
  /\ UNCHANGED schemavars

\* timeout=10 is the total time of a request, the wait for a connection
\* included, and every coroutine's timer started at the gather(): the
\* timers of all coroutines still unfinished expire together.
DeadlinePasses ==
  /\ dagpc = "parse"
  /\ ~deadline
  /\ \E i \in DOMAIN task : ~Done(task[i])
  /\ deadline' = TRUE
  /\ UNCHANGED <<cities, task, timevars>>
  /\ UNCHANGED <<dbvars, callvars, loopvars, runvars>>
  /\ UNCHANGED schemavars

\* asyncio.TimeoutError in coroutine i, queued or in flight.
Timeout(i) ==
  /\ dagpc = "parse"
  /\ deadline
  /\ i \in DOMAIN task
  /\ ~Done(task[i])
  /\ task' = [task EXCEPT ![i].st = "done",
                          ![i].met = Some(TimedOut),
                          ![i].result = fetch_city_weather(cities[i], TimedOut)]
  /\ UNCHANGED <<cities, deadline, timevars>>
  /\ UNCHANGED <<dbvars, callvars, loopvars, runvars>>
  /\ UNCHANGED schemavars

\* ------------------------------------------------- the gather() in time
\* What a request can take upstream: an answer within the timeout, or
\* longer than the timeout.
Latencies == (1..MaxLatency) \cup {timeout + 1}

RECURSIVE SumTo(_, _)
SumTo(f, n) == IF n = 0 THEN 0 ELSE f[n] + SumTo(f, n - 1)

\* Requests made one after the other (for city: await fetch): the answer
\* for key i arrives after the latencies of all keys up to i.
Due_sequential(i) == SumTo(latency, i)

\* The time after the start of the gather() at which the answer for key i
\* arrives: gather() runs the coroutines concurrently, and a list within
\* limit_per_host has every request issued at the start.
Due(i) == latency[i]

\* A time unit passes while no answer is due.
Elapse ==
  /\ dagpc = "parse"
  /\ ~deadline
  /\ elapsed < timeout
  /\ \E i \in DOMAIN task : ~Done(task[i])
  /\ \A i \in DOMAIN task : task[i].st = "inflight" => Due(i) > elapsed
  /\ elapsed' = elapsed + 1
  /\ UNCHANGED <<cities, task, deadline, latency>>
  /\ UNCHANGED <<dbvars, callvars, loopvars, runvars>>
  /\ UNCHANGED schemavars

\* The answer for key i arrives when it is due.
RespondDue(i, response) ==
  /\ i \in DOMAIN latency
  /\ Due(i) = elapsed
  /\ Respond(i, response)

\* The timeout of the requests still unfinished expires.
DeadlineDue ==
  /\ elapsed = timeout
  /\ DeadlinePasses

\* The filter leaving its loop at the first result that is not a dict.
RECURSIVE successful_results_break(_)
successful_results_break(results) ==
  IF results = <<>> THEN <<>>
  ELSE LET result == Head(results)
       IN IF result.tag = "dict"
          THEN <<result.d>> \o successful_results_break(Tail(results))
          ELSE <<>>

\* The filter after the gather(): exceptions are logged, None is dropped.
RECURSIVE successful_results(_)
successful_results(results) ==
  IF results = <<>> THEN <<>>
  ELSE LET result == Head(results)
           rest == successful_results(Tail(results))
       IN IF result.tag = "Exception" THEN rest               \* isinstance(result, Exception)
          ELSE IF result.tag = "dict" THEN <<result.d>> \o rest
          ELSE IF result.tag = "CancelledError" THEN <<result>> \o rest  \* elif result: truthy
          ELSE rest

Results(ts) == [i \in DOMAIN ts |-> ts[i].result]

\* A gather() that returns with the first coroutine to finish.
Gathered_first(ts) == ts = <<>> \/ \E i \in DOMAIN ts : Done(ts[i])

\* The gather() may return.
Gathered(ts) == \A i \in DOMAIN ts : Done(ts[i])

\* A gather() without return_exceptions=True: an exception of a coroutine
\* is raised out of the gather() and the function does not return.
GatherReturn_propagate ==
  /\ dagpc = "parse"
  /\ Gathered(task)
  /\ \A i \in DOMAIN task : task[i].result.tag # "Exception"
  /\ weather_data_list' = successful_results(Results(task))
  /\ idx' = 1
  /\ saved_count' = 0
  /\ skipped_count' = 0
  /\ outcomes' = <<>>
  /\ dagpc' = "save"
  /\ UNCHANGED <<runs, runLog>>
  /\ UNCHANGED <<dbvars, callvars, fetchvars>>
  /\ UNCHANGED schemavars

\* gather() returns, fetch_all_cities_async returns the filtered list, and
\* the save task's xcom_pull receives it.
GatherReturn ==
  /\ dagpc = "parse"
  /\ Gathered(task)
  /\ weather_data_list' = successful_results(Results(task))
  /\ idx' = 1
  /\ saved_count' = 0
  /\ skipped_count' = 0
  /\ outcomes' = <<>>
  /\ dagpc' = "save"
  /\ UNCHANGED <<runs, runLog>>
  /\ UNCHANGED <<dbvars, callvars, fetchvars>>
  /\ UNCHANGED schemavars

\* ------------------------------------------------------ save_results_to_db
\* The loop body calls save_weather_data for the next element.
DagSaveCall ==
  /\ dagpc = "save"
  /\ idx <= Len(weather_data_list)
  /\ Begin("dag", "dag", weather_data_list[idx], DAG_MIN_AGE_MINUTES, TRUE)
  /\ UNCHANGED <<ncalls, status>>
  /\ UNCHANGED <<dbvars, fetchvars, loopvars, runvars>>
  /\ UNCHANGED schemavars

\* save_results_to_db raising on an empty list instead of returning 0.
SaveReturn_raise_on_empty ==
  /\ dagpc = "save"
  /\ weather_data_list # <<>>
  /\ call["dag"].pc = "idle"
  /\ idx > Len(weather_data_list)
  /\ runLog' = Append(runLog,
                  [ fetched  |-> [i \in DOMAIN weather_data_list |-> weather_data_list[i].city],
                    saved    |-> saved_count,
                    skipped  |-> skipped_count,
                    outcomes |-> outcomes,
                    returned |-> IF weather_data_list = <<>> THEN 0 ELSE saved_count ])
  /\ runs' = runs + 1
  /\ dagpc' = "idle"
  /\ call' = [call EXCEPT !["dag"] = IdleCall]
  /\ gate' = [gate EXCEPT !["dag"] = None]
  /\ ret' = [ret EXCEPT !["dag"] = None]
  /\ weather_data_list' = <<>>
  /\ idx' = 1
  /\ saved_count' = 0
  /\ skipped_count' = 0
  /\ outcomes' = <<>>
  /\ task' = <<>>
  /\ deadline' = FALSE
  /\ UNCHANGED <<cities, timevars, ncalls, status>>
  /\ UNCHANGED dbvars
  /\ UNCHANGED schemavars

\* save_results_to_db returns (0 at once for an empty list, else
\* saved_count after the loop) and the run ends.
SaveReturn ==
  /\ dagpc = "save"
  /\ call["dag"].pc = "idle"
  /\ idx > Len(weather_data_list)
  /\ runLog' = Append(runLog,
                  [ fetched  |-> [i \in DOMAIN weather_data_list |-> weather_data_list[i].city],
                    saved    |-> saved_count,
                    skipped  |-> skipped_count,
                    outcomes |-> outcomes,
                    returned |-> IF weather_data_list = <<>> THEN 0 ELSE saved_count ])
  /\ runs' = runs + 1
  /\ dagpc' = "idle"
  /\ call' = [call EXCEPT !["dag"] = IdleCall]
  /\ gate' = [gate EXCEPT !["dag"] = None]
  /\ ret' = [ret EXCEPT !["dag"] = None]
  /\ weather_data_list' = <<>>
  /\ idx' = 1
  /\ saved_count' = 0
  /\ skipped_count' = 0
  /\ outcomes' = <<>>
  /\ task' = <<>>
  /\ deadline' = FALSE
  /\ UNCHANGED <<cities, timevars, ncalls, status>>
  /\ UNCHANGED dbvars
  /\ UNCHANGED schemavars

\* ------------------------------------------------------------- init_db
\* init_db is entered: create_engine, engine.connect().
InitCall(p) ==
  /\ init[p].pc = "idle"
  /\ init[p].calls < MaxInits
  /\ init' = [init EXCEPT ![p].pc = "check_table",
                          ![p].table_exists = FALSE,
                          ![p].index_exists = FALSE,
                          ![p].result = None,
                          ![p].calls = @ + 1]
  /\ UNCHANGED <<has_table, has_index>>
  /\ UNCHANGED <<dbvars, callvars, fetchvars, loopvars, runvars>>

\* table_exists = SELECT EXISTS (... information_schema.tables ...)
CheckTable(p) ==
  /\ init[p].pc = "check_table"
  /\ init' = [init EXCEPT ![p].table_exists = has_table,
                          ![p].pc = IF has_table THEN "check_index" ELSE "create_all"]
  /\ UNCHANGED <<has_table, has_index>>
  /\ UNCHANGED <<dbvars, callvars, fetchvars, loopvars, runvars>>

\* init_db returns the engine.
InitReturn(p) ==
  init' = [init EXCEPT ![p].pc = "idle", ![p].result = Some("engine"),
                       ![p].done = @ + 1]

\* except Exception: print, raise.
InitRaise(p) ==
  init' = [init EXCEPT ![p].pc = "idle", ![p].result = Some("raised")]

\* Base.metadata.create_all(engine) looks for the table first
\* (checkfirst) and leaves it alone when it is there.
CreateAllCheck(p) ==
  /\ init[p].pc = "create_all"
  /\ init' = [init EXCEPT ![p].pc = IF has_table THEN "create_index_if_not_exists"
                                                 ELSE "create_table"]
  /\ UNCHANGED <<has_table, has_index>>
  /\ UNCHANGED <<dbvars, callvars, fetchvars, loopvars, runvars>>

\* create_all's CREATE TABLE weather_data: the database refuses a table
\* that exists by now.
CreateTable(p) ==
  /\ init[p].pc = "create_table"
  /\ IF has_table
     THEN /\ InitRaise(p)
          /\ UNCHANGED has_table
     ELSE /\ has_table' = TRUE
          /\ init' = [init EXCEPT ![p].pc = "create_index_if_not_exists"]
  /\ UNCHANGED has_index
  /\ UNCHANGED <<dbvars, callvars, fetchvars, loopvars, runvars>>

\* CREATE INDEX IF NOT EXISTS idx_weather_data_city_created; commit.
CreateIndexIfNotExists(p) ==
  /\ init[p].pc = "create_index_if_not_exists"
  /\ has_index' = TRUE
  /\ InitReturn(p)
  /\ UNCHANGED has_table
  /\ UNCHANGED <<dbvars, callvars, fetchvars, loopvars, runvars>>

\* The test that ignores what pg_indexes says and always creates.
CheckIndex_always_create(p) ==
  /\ init[p].pc = "check_index"
  /\ init' = [init EXCEPT ![p].index_exists = FALSE, ![p].pc = "create_index"]
  /\ UNCHANGED <<has_table, has_index>>
  /\ UNCHANGED <<dbvars, callvars, fetchvars, loopvars, runvars>>

\* index_exists = SELECT EXISTS (... pg_indexes ...); if not index_exists
CheckIndex(p) ==
  /\ init[p].pc = "check_index"
  /\ IF has_index
     THEN init' = [init EXCEPT ![p].index_exists = TRUE, ![p].pc = "idle",
                               ![p].result = Some("engine"), ![p].done = @ + 1]
     ELSE init' = [init EXCEPT ![p].index_exists = FALSE, ![p].pc = "create_index"]
  /\ UNCHANGED <<has_table, has_index>>
  /\ UNCHANGED <<dbvars, callvars, fetchvars, loopvars, runvars>>

\* CREATE INDEX idx_weather_data_city_created (no IF NOT EXISTS): the
\* database refuses an index that exists by now.
CreateIndex(p) ==
  /\ init[p].pc = "create_index"
  /\ IF has_index
     THEN /\ InitRaise(p)
          /\ UNCHANGED has_index
     ELSE /\ has_index' = TRUE
          /\ InitReturn(p)
  /\ UNCHANGED has_table
  /\ UNCHANGED <<dbvars, callvars, fetchvars, loopvars, runvars>>

\* The database is not reached (engine.connect() or a statement raises):
\* except Exception: print, raise.
InitFail(p) ==
  /\ init[p].pc # "idle"
  /\ faults < MaxFaults
  /\ faults' = faults + 1
  /\ InitRaise(p)
  /\ UNCHANGED <<has_table, has_index>>
  /\ UNCHANGED <<clock, store, nextId, prov>>
  /\ UNCHANGED <<callvars, fetchvars, loopvars, runvars>>

\* ------------------------------------------------- is_data_fresh alone
\* is_data_fresh(city, min_age_minutes) called by itself, the call taken
\* as one step: get_last_weather_record's get_session() runs init_db, which
\* creates the table and the index the database lacks; then the query and
\* the comparison of the age.
IsDataFresh(p, city, min_age_minutes) ==
  /\ call[p].pc = "idle"
  /\ has_table' = TRUE
  /\ has_index' = TRUE
  /\ LET rows == LatestRows(store, city)
     IN \E last \in (IF rows = {} THEN {None} ELSE { Some(r) : r \in rows }) :
          gate' = [gate EXCEPT ![p] =
                     Some([now |-> clock,
                           out |-> is_data_fresh(last, clock, min_age_minutes)])]
  /\ UNCHANGED <<call, ret, ncalls, status, init>>
  /\ UNCHANGED <<dbvars, fetchvars, loopvars, runvars>>

\* The same call with the query raising: get_last_weather_record logs the
\* error and returns None.
IsDataFreshReadFail(p, city, min_age_minutes) ==
  /\ call[p].pc = "idle"
  /\ faults < MaxFaults
  /\ faults' = faults + 1
  /\ has_table' = TRUE
  /\ has_index' = TRUE
  /\ gate' = [gate EXCEPT ![p] =
                Some([now |-> clock,
                      out |-> is_data_fresh(None, clock, min_age_minutes)])]
  /\ UNCHANGED <<call, ret, ncalls, status, init>>
  /\ UNCHANGED <<clock, store, nextId, prov>>
  /\ UNCHANGED <<fetchvars, loopvars, runvars>>

\* No other call of init_db is in progress.
InitAlone(p) == \A q \in Initers \ {p} : init[q].pc = "idle"

\* ---------------------------------------------------- the specifications
\* The pipeline: runs of the DAG, one at a time (max_active_runs=1).
Next ==
  \/ Tick
  \/ RunStart
  \/ \E i \in DOMAIN task : \E r \in RunResponses(cities[i]) : Respond(i, r)
  \/ DeadlinePasses
  \/ \E i \in DOMAIN task : Timeout(i)
  \/ GatherReturn
  \/ DagSaveCall
  \/ GateRead("dag")
  \/ GateReadFail("dag")
  \/ GateSessionFail("dag")
  \/ GateDecide("dag")
  \/ Commit("dag")
  \/ CommitFail("dag")
  \/ SaveReturn

Spec == Init /\ [][Next]_vars

\* The callers of save_weather_data outside the DAG (Celery workers run
\* save_weather_task concurrently), with the DAG idle.
SaveCities == {1, 2}

InitSave == InitWith({<<>>})

\* The workers are alike and so are the cities: of the behaviours that
\* differ only in their names, the one whose first call is w1's, for
\* city 1, is followed.
FirstCall(p, city) == ncalls = 0 => (p = "w1" /\ city = 1)

NextSave ==
  \/ Tick
  \/ \E p \in Workers : \E city \in SaveCities :
       (FirstCall(p, city) /\ SaveWeatherTask(p, city))
  \/ \E p \in Workers : \E city \in SaveCities :
       \E m \in MinAgeChoices : \E skip \in BOOLEAN :
         (/\ FirstCall(p, city)
          /\ (skip \/ m = DEFAULT_MIN_AGE_MINUTES)
          /\ DirectCall(p, city, m, skip))
  \/ \E p \in Workers : GateRead(p)
  \/ \E p \in Workers : GateReadFail(p)
  \/ \E p \in Workers : GateSessionFail(p)
  \/ \E p \in Workers : GateDecide(p)
  \/ \E p \in Workers : Commit(p)
  \/ \E p \in Workers : CommitFail(p)

SpecSave == InitSave /\ [][NextSave]_vars

\* The DAG and one Celery worker whose saves for a city never overlap: a
\* call for a city starts only when no other call for it is in progress.
NextSerial ==
  \/ Tick
  \/ RunStart
  \/ \E i \in DOMAIN task : \E r \in RunResponses(cities[i]) : Respond(i, r)
  \/ DeadlinePasses
  \/ \E i \in DOMAIN task : Timeout(i)
  \/ GatherReturn
  \/ (idx <= Len(weather_data_list) /\ Serialized("dag", weather_data_list[idx].city) /\ DagSaveCall)
  \/ \E city \in SaveCities : (Serialized("w1", city) /\ SaveWeatherTask("w1", city))
  \/ \E p \in {"dag", "w1"} : GateRead(p)
  \/ \E p \in {"dag", "w1"} : GateReadFail(p)
  \/ \E p \in {"dag", "w1"} : GateSessionFail(p)
  \/ \E p \in {"dag", "w1"} : GateDecide(p)
  \/ \E p \in {"dag", "w1"} : Commit(p)
  \/ \E p \in {"dag", "w1"} : CommitFail(p)
  \/ SaveReturn

InitSerial == InitWith({<<1>>, <<1, 1>>})

SpecSerial == InitSerial /\ [][NextSerial]_vars

\* fetch_all_cities_async alone, against every kind of answer.
NextFetch ==
  \/ RunStart
  \/ \E i \in DOMAIN task : \E r \in Responses(cities[i]) : Respond(i, r)
  \/ DeadlinePasses
  \/ \E i \in DOMAIN task : Timeout(i)
  \/ GatherReturn

SpecFetch == Init /\ [][NextFetch]_vars

\* The same, with coroutines that may end cancelled.
NextCancel ==
  \/ NextFetch
  \/ \E i \in DOMAIN task : Respond(i, Cancelled)

SpecCancel == Init /\ [][NextCancel]_vars

\* fetch_all_cities_async over a list longer than the connector's limit.
InitLong == InitWith({LongList})

NextLong ==
  \/ RunStart
  \/ \E i \in DOMAIN task : \E r \in PlainResponses(cities[i]) : Respond(i, r)
  \/ DeadlinePasses
  \/ \E i \in DOMAIN task : Timeout(i)
  \/ GatherReturn

SpecLong == InitLong /\ [][NextLong]_vars

\* fetch_all_cities_async over lists on both sides of the connector's limit.
InitCap == InitWith(KeyLists \cup {LongList})

SpecCap == InitCap /\ [][NextLong]_vars

\* The event loop keeps running the coroutines and the timers: a step that
\* stays possible is taken.
FairCap == SpecCap /\ WF_vars(NextLong)

\* fetch_all_cities_async in time, over lists within the connector's limit.
InitTimed ==
  /\ InitProgram(KeyLists)
  /\ has_table = TRUE
  /\ has_index = TRUE
  /\ latency \in [1..Len(cities) -> Latencies]

NextTimed ==
  \/ RunStart
  \/ Elapse
  \/ \E i \in DOMAIN task : \E r \in RunResponses(cities[i]) : RespondDue(i, r)
  \/ DeadlineDue
  \/ \E i \in DOMAIN task : Timeout(i)
  \/ GatherReturn

SpecTimed == InitTimed /\ [][NextTimed]_vars

\* init_db called by two callers at once on a database without the
\* schema, next to a worker saving once the schema is there.
InitDb ==
  /\ InitProgram({<<>>})
  /\ latency = <<>>
  /\ has_table = FALSE
  /\ has_index = FALSE

InitSteps(p) ==
  \/ CheckTable(p)
  \/ CreateAllCheck(p)
  \/ CreateTable(p)
  \/ CreateIndexIfNotExists(p)
  \/ CheckIndex(p)
  \/ CreateIndex(p)
  \/ InitFail(p)

SaveSteps(p) ==
  \/ GateRead(p)
  \/ GateReadFail(p)
  \/ GateSessionFail(p)
  \/ GateDecide(p)
  \/ Commit(p)
  \/ CommitFail(p)

NextDb ==
  \/ Tick
  \/ \E p \in Initers : InitCall(p)
  \/ \E p \in Initers : InitSteps(p)
  \/ \E city \in SaveCities : (has_table /\ has_index /\ SaveWeatherTask("w1", city))
  \/ SaveSteps("w1")

SpecDb == InitDb /\ [][NextDb]_vars

\* A caller of is_data_fresh alone on a database without the schema, next
\* to a caller of init_db and a worker saving once the schema is there.
IsDataFreshStep ==
  \E city \in SaveCities : \E m \in MinAgeChoices :
    \/ IsDataFresh("w2", city, m)
    \/ IsDataFreshReadFail("w2", city, m)

NextGate ==
  \/ Tick
  \/ InitCall("i1")
  \/ InitSteps("i1")
  \/ \E city \in SaveCities : (has_table /\ has_index /\ SaveWeatherTask("w1", city))
  \/ SaveSteps("w1")
  \/ IsDataFreshStep

SpecGate == InitDb /\ [][NextGate]_vars

\* init_db called again and again, one call at a time, on a database
\* in any state init_db can leave it in.
InitDbSeq ==
  /\ InitProgram({<<>>})
  /\ latency = <<>>
  /\ has_table \in BOOLEAN
  /\ has_index \in BOOLEAN
  /\ has_index => has_table

NextDbSeq ==
  \/ Tick
  \/ \E p \in Initers : (InitAlone(p) /\ InitCall(p))
  \/ \E p \in Initers : InitSteps(p)
  \/ \E city \in SaveCities : (has_table /\ has_index /\ SaveWeatherTask("w1", city))
  \/ SaveSteps("w1")

SpecDbSeq == InitDbSeq /\ [][NextDbSeq]_vars

\* ============================================================ properties
Distinct(seq) == \A i \in DOMAIN seq : \A j \in DOMAIN seq : i # j => seq[i] # seq[j]

\* The rows of one city, the second inserted after the first.
Successive(r1, r2) == r1.city = r2.city /\ r1.id < r2.id

\* The insert of the row went through the gate, and the gate's read worked.
Gated(r) == prov[r.id].skip_if_fresh /\ ~prov[r.id].readfail

\* r2 was inserted less than its call's min_age_minutes after r1.
TooClose(r1, r2) ==
  (r2.created_at - r1.created_at) * TickMinutes < prov[r2.id].min_age_minutes

\* C1: when the saves of a city never overlap, skip_if_fresh is true and the
\* last-record read does not fail, no row is inserted less than
\* min_age_minutes after an earlier row of the same city; a key met a second
\* time in one run is judged against the row the run has just committed.
C1_SerializedWindow ==
  \A r1 \in store : \A r2 \in store :
    (Successive(r1, r2) /\ Gated(r2)) => ~TooClose(r1, r2)

\* A run over <<1, 1>> saved the first element and skipped the second, and a
\* later save of city 1 was accepted after the window.
C1_Witness ==
  /\ cities = <<1, 1>>
  /\ Len(runLog) >= 1
  /\ runLog[1].saved = 1
  /\ runLog[1].skipped = 1
  /\ \E r1 \in store : \E r2 \in store :
       Successive(r1, r2) /\ Gated(r1) /\ Gated(r2) /\ prov[r1.id].run = 1

\* C2: concurrent saves are not excluded.  Two gated rows of a city lie
\* closer than min_age_minutes only when the later row's call read the last
\* record before the earlier row was committed; and that interleaving is
\* reachable for two Celery tasks that both read "no record".
C2_CloseOnlyByRace ==
  \A r1 \in store : \A r2 \in store :
    (Successive(r1, r2) /\ Gated(r2) /\ TooClose(r1, r2))
      => prov[r2.id].readAt <= r1.id

\* Two Celery tasks both read "no record" for the city and both inserted.
C2_Witness ==
  \E r1 \in store : \E r2 \in store :
    /\ Successive(r1, r2)
    /\ Gated(r1) /\ Gated(r2)
    /\ prov[r1.id].kind = "celery" /\ prov[r2.id].kind = "celery"
    /\ prov[r1.id].by # prov[r2.id].by
    /\ prov[r1.id].saw = 0 /\ prov[r2.id].saw = 0
    /\ TooClose(r1, r2)

\* The gate of caller p has decided in the current call.
Decided(p) == gate[p] # None

\* After a gate that did not skip, the call is at the insert or has
\* returned from it.
WentToInsert(p) ==
  \/ call[p].pc = "insert"
  \/ /\ call[p].pc = "idle"
     /\ ret[p] # None
     /\ Val(ret[p]).reason \in {"saved", "error"}

\* C3: for a city with no stored row the gate reports not fresh, whatever
\* min_age_minutes is, and save_weather_data goes on to the insert.
C3_NoRecordAccept ==
  \A p \in Procs :
    (Decided(p) /\ call[p].nrows = 0)
      => /\ ~Val(gate[p]).out.is_fresh
         /\ Val(gate[p]).out.last_record = None
         /\ Val(gate[p]).out.age_minutes = None
         /\ WentToInsert(p)

\* A call with a min_age_minutes other than the default found no row of its
\* city and saved.
C3_Witness ==
  \E p \in Workers :
    /\ Decided(p)
    /\ call[p].nrows = 0
    /\ ~call[p].readfail
    /\ call[p].min_age_minutes = TickMinutes
    /\ ret[p] = Some(SavedResult)

\* The age the gate of p measured: now minus the created_at of the row read.
GateAge(p) == (Val(gate[p]).now - Val(call[p].last).created_at) * TickMinutes

C4_Decision ==
  \A p \in Procs :
    (Decided(p) /\ call[p].last # None)
      => IF GateAge(p) < call[p].min_age_minutes
         THEN /\ Val(gate[p]).out.is_fresh
              /\ Val(gate[p]).out.age_minutes = Some(GateAge(p))
              /\ Val(gate[p]).out.last_record = call[p].last
              /\ call[p].pc = "idle"
              /\ ret[p] = Some(SkippedResult(Some(GateAge(p))))
         ELSE /\ ~Val(gate[p]).out.is_fresh
              /\ WentToInsert(p)

C4_SkipWritesNothing ==
  \A p \in Procs :
    (ret'[p] # ret[p] /\ ret'[p] # None /\ Val(ret'[p]).skipped) => store' = store

\* C4: with a stored row of age a, a < min_age_minutes gives SKIP with the
\* measured age and the row read, and the call inserts nothing;
\* a >= min_age_minutes, equality included, gives ACCEPT and the call goes
\* on to the insert.
C4_GateBoundary == []C4_Decision /\ [][C4_SkipWritesNothing]_vars

\* A row exactly min_age_minutes old was read, and the call saved.
C4_Witness ==
  \E p \in Workers :
    /\ Decided(p)
    /\ call[p].last # None
    /\ GateAge(p) = call[p].min_age_minutes
    /\ ret[p] = Some(SavedResult)

Range(seq) == { seq[i] : i \in DOMAIN seq }

\* Two runs have ended, over distinct keys, every fetch succeeded in both,
\* the store raised nothing and less than the threshold has elapsed.
TwoRunsInSuccession ==
  /\ Len(runLog) = 2
  /\ Distinct(cities)
  /\ faults = 0
  /\ runLog[1].fetched = cities
  /\ runLog[2].fetched = cities
  /\ clock * TickMinutes < DAG_MIN_AGE_MINUTES

\* C5: two runs in immediate succession from an empty store, every fetch
\* succeeding both times and less than the threshold elapsing: the first run
\* saves the K observations, the second saves none and skips the same K, and
\* the store holds exactly K rows, one per key.
C5_SecondRunSkipsAll ==
  TwoRunsInSuccession
    => /\ runLog[1].saved = Len(cities)
       /\ runLog[1].skipped = 0
       /\ runLog[1].returned = Len(cities)
       /\ runLog[2].saved = 0
       /\ runLog[2].skipped = Len(cities)
       /\ runLog[2].returned = 0
       /\ Cardinality(store) = Len(cities)
       /\ { r.city : r \in store } = Range(cities)
       /\ \A r \in store : prov[r.id].run = 1

\* Two runs over three keys: the second skipped all three.
C5_Witness ==
  /\ TwoRunsInSuccession
  /\ cities = <<1, 2, 3>>
  /\ runLog[2].skipped = 3
  /\ Cardinality(store) = 3

\* The loop of save_results_to_db has ended and the function is about to
\* print its summary and return.
LoopEnded ==
  /\ dagpc = "save"
  /\ call["dag"].pc = "idle"
  /\ idx > Len(weather_data_list)

\* The fetches of the run that did not give an observation.
FailedTasks == { i \in DOMAIN task : task[i].result.tag # "dict" }

\* "Успешно: X из N": the fetches that failed are the N - X others.
FetchFailedCount == Len(cities) - Len(weather_data_list)

\* The row the current run stored for the element d of the fetched list.
StoredAsFetched(d) ==
  \E r \in store :
    /\ prov[r.id].run = runs + 1
    /\ r.city = d.city
    /\ r.temperature = d.temperature
    /\ r.humidity = d.humidity
    /\ r.pressure = d.pressure
    /\ r.description = d.description
    /\ r.wind_speed = d.wind_speed
    /\ r.clouds = d.clouds

\* What the upstream holds for the city, as fetch_city_weather reads it.
AsUpstream(d) ==
  /\ d.temperature = Round1(UpstreamJson(d.city, FALSE).temp)
  /\ d.humidity = UpstreamJson(d.city, FALSE).humidity
  /\ d.pressure = UpstreamJson(d.city, FALSE).pressure
  /\ d.description = UpstreamJson(d.city, FALSE).description

\* C6: when exactly one of the N fetches of a run fails, nothing is skipped
\* as fresh and the store raises nothing, the run counts one failed fetch
\* and N-1 saved, and each of the other N-1 keys has a row of this run with
\* the values fetched for that key.
C6_OneFetchFails ==
  (/\ LoopEnded
   /\ Distinct(cities)
   /\ Cardinality(FailedTasks) = 1
   /\ skipped_count = 0
   /\ faults = 0)
    => /\ FetchFailedCount = 1
       /\ saved_count = Len(cities) - 1
       /\ \A i \in DOMAIN task \ FailedTasks :
            \E k \in DOMAIN weather_data_list :
              /\ weather_data_list[k].city = cities[i]
              /\ AsUpstream(weather_data_list[k])
              /\ StoredAsFetched(weather_data_list[k])
              /\ Cardinality({ r \in store : r.city = cities[i] /\ prov[r.id].run = runs + 1 }) = 1

\* Keys <<1, 2, 3>> on an empty store, the fetch of key 2 timing out:
\* saved 2, skipped 0, one fetch failed.
C6_Witness ==
  /\ LoopEnded
  /\ cities = <<1, 2, 3>>
  /\ runs = 0
  /\ faults = 0
  /\ task[2].met = Some(TimedOut)
  /\ FailedTasks = {2}
  /\ saved_count = 2
  /\ skipped_count = 0
  /\ FetchFailedCount = 1

\* C7: the outcome of every task is the outcome of its own request: a
\* task that has ended had its request issued, and its result is what
\* fetch_city_weather makes of what that request met; no task ends because
\* of what the requests of other keys did.
C7_Isolation ==
  \A i \in DOMAIN task :
    Done(task[i])
      => /\ task[i].issued
         /\ task[i].met # None
         /\ task[i].result = fetch_city_weather(cities[i], Val(task[i].met))

\* C8: fetch_all_cities_async has returned only when every task, one per
\* key, has ended, and save_weather_data is called by the run only in its
\* save phase, which follows that return.
C8_JoinBeforeSave ==
  /\ dagpc = "save"
       => /\ DOMAIN task = DOMAIN cities
          /\ \A i \in DOMAIN task : task[i].st = "done" /\ task[i].met # None
  /\ call["dag"].pc # "idle" => dagpc = "save"
  /\ dagpc # "save" => weather_data_list = <<>>

\* The run is saving the second of two fetched observations, the fetch of
\* a third key having ended in a timeout.
C8_Witness ==
  /\ dagpc = "save"
  /\ Len(cities) = 3
  /\ Len(weather_data_list) = 2
  /\ idx = 2
  /\ call["dag"].pc = "insert"
  /\ \E i \in DOMAIN task : task[i].met = Some(TimedOut)

\* fetch_all_cities_async returns the list alone: no key is in a returned
\* failures mapping.
ReturnedFailures == {}

ReturnedSuccesses == { weather_data_list[k].city : k \in DOMAIN weather_data_list }

Succeeded == DOMAIN task \ FailedTasks

NthSucceeded(k) ==
  CHOOSE i \in Succeeded : Cardinality({ j \in Succeeded : j < i }) = k - 1

C10_NoGate ==
  \A p \in Procs :
    (call[p].kind # "none" /\ ~call[p].skip_if_fresh)
      => /\ gate[p] = None
         /\ call[p].last = None
         /\ WentToInsert(p)

C10_OneRowPerCall ==
  \A p \in Procs :
    (ret'[p] # ret[p] /\ ret'[p] # None /\ ~call[p].skip_if_fresh)
      => IF Val(ret'[p]).reason = "saved"
         THEN /\ Cardinality(store') = Cardinality(store) + 1
              /\ store \subseteq store'
              /\ \A r \in store' \ store : r.city = call[p].obs.city
         ELSE Val(ret'[p]).reason = "error" /\ store' = store

\* C10: with skip_if_fresh false save_weather_data never reads the last
\* record nor computes an age, and goes to the insert whatever the store
\* holds; the call ends with exactly one more row of its city, or with
\* reason 'error' and the store as it was.
C10_AlwaysInsert == []C10_NoGate /\ [][C10_OneRowPerCall]_vars

\* A call with skip_if_fresh false saved next to a row of the same city
\* created at the same moment.
C10_Witness ==
  \E p \in Workers :
    /\ ~call[p].skip_if_fresh
    /\ ret[p] = Some(SavedResult)
    /\ \E r1 \in store : \E r2 \in store :
         /\ Successive(r1, r2)
         /\ prov[r2.id].by = p
         /\ ~prov[r2.id].skip_if_fresh
         /\ r2.created_at = r1.created_at

\* The elements of the sequence equal to x.
Count(seq, x) == Cardinality({ k \in DOMAIN seq : seq[k] = x })

\* The rows the current run has committed.
RowsOfThisRun == { r \in store : prov[r.id].by = "dag" /\ prov[r.id].run = runs + 1 }

\* C11: an insert that fails gives the outcome 'error' for its element,
\* counted neither as saved nor as skipped and leaving no row, and the loop
\* goes on: every element of the fetched list, those after the failure
\* included, gets its own call of save_weather_data before the run ends.
C11_ErrorDoesNotStopRun ==
  /\ dagpc = "save"
       => /\ Len(outcomes) = idx - 1
          /\ idx <= Len(weather_data_list) + 1
          /\ saved_count = Count(outcomes, "saved")
          /\ skipped_count = Count(outcomes, "skipped_fresh")
          /\ Cardinality(RowsOfThisRun) = Count(outcomes, "saved")
  /\ LoopEnded => Len(outcomes) = Len(weather_data_list)
  /\ \A k \in DOMAIN runLog : Len(runLog[k].outcomes) = Len(runLog[k].fetched)

\* Of three fetched observations the save of the second ended with reason
\* 'error': the first and the third were saved.
C11_Witness ==
  /\ LoopEnded
  /\ Len(weather_data_list) = 3
  /\ outcomes = <<"saved", "error", "saved">>
  /\ call["dag"].readfail = FALSE
  /\ saved_count = 2
  /\ skipped_count = 0

\* The summaries of the runs that fetched nothing report nothing saved.
EmptyRunsReportZero ==
  \A k \in DOMAIN runLog :
    runLog[k].fetched = <<>>
      => /\ runLog[k].saved = 0
         /\ runLog[k].skipped = 0
         /\ runLog[k].returned = 0
         /\ runLog[k].outcomes = <<>>

\* C12: a run whose loop has ended, whatever failed on the way, can return
\* its counts; a run in which every fetch failed has an empty list, makes
\* no call of save_weather_data, raises nothing and returns 0.
C12_RunAlwaysReturns ==
  /\ LoopEnded => ENABLED SaveReturn
  /\ (dagpc = "save" /\ weather_data_list = <<>>)
       => /\ LoopEnded
          /\ saved_count = 0
          /\ skipped_count = 0
  /\ EmptyRunsReportZero
  /\ \A k \in DOMAIN runLog :
       /\ runLog[k].returned = runLog[k].saved
       /\ runLog[k].saved + runLog[k].skipped <= Len(runLog[k].fetched)

\* A run over three keys whose fetches all failed has ended with 0 saved,
\* and the next run has started.
C12_Witness ==
  /\ cities = <<1, 2, 3>>
  /\ Len(runLog) = 1
  /\ runLog[1].fetched = <<>>
  /\ runLog[1].returned = 0
  /\ store = {}
  /\ dagpc = "parse"

\* The rows of the caller's city that were committed when it read.
RowsAtRead(p) == { r \in CityRows(store, call[p].obs.city) : r.id < call[p].readAt }

\* get_last_weather_record has returned to the gate of caller p.
HasRead(p) == call[p].pc = "decide"

\* What get_last_weather_record returned is a newest row of the city, or
\* None with no row of the city stored.
NewestOrNone(p) ==
  IF call[p].last = None
  THEN RowsAtRead(p) = {}
  ELSE /\ Val(call[p].last) \in RowsAtRead(p)
       /\ \A r \in RowsAtRead(p) : r.created_at <= Val(call[p].last).created_at

\* C13: get_last_weather_record(city) returns a row of that city with the
\* greatest created_at, and None exactly when no row of the city is stored.
C13_MostRecent == \A p \in Procs : HasRead(p) => NewestOrNone(p)

\* The same, for the reads whose query was answered.
C13_WhenQueryAnswers ==
  \A p \in Procs : (HasRead(p) /\ ~call[p].readfail) => NewestOrNone(p)

\* The row of the last insert for the caller's city before it read.
LastInserted(p) == CHOOSE r \in RowsAtRead(p) : \A q \in RowsAtRead(p) : q.id <= r.id

\* The row carries the arguments its insert was given, field by field.
AsGiven(r) ==
  /\ r.city = prov[r.id].obs.city
  /\ r.humidity = prov[r.id].obs.humidity
  /\ r.pressure = prov[r.id].obs.pressure
  /\ r.description = prov[r.id].obs.description
  /\ r.wind_speed = prov[r.id].obs.wind_speed
  /\ r.clouds = prov[r.id].obs.clouds

\* C14 as the specification words it: the record read back is the one of
\* the last insert and equals what was inserted, the temperature included.
C14_Original ==
  \A p \in Procs :
    (HasRead(p) /\ ~call[p].readfail /\ RowsAtRead(p) # {})
      => /\ call[p].last = Some(LastInserted(p))
         /\ AsGiven(LastInserted(p))
         /\ LastInserted(p).temperature = prov[LastInserted(p).id].obs.temperature

\* No other row of the city was created at the moment of the last insert.
LastInsertedAlone(p) ==
  \A r \in RowsAtRead(p) :
    r.created_at = LastInserted(p).created_at => r = LastInserted(p)

\* C14: after a successful insert for a city, a read of the city whose
\* query is answered returns a row that carries the city, humidity,
\* pressure, description, wind_speed and clouds its insert was given and
\* the given temperature rounded to one decimal; it is the row of the last
\* insert when no other row of the city has the same created_at.
C14_RoundTrip ==
  \A p \in Procs :
    (HasRead(p) /\ ~call[p].readfail /\ RowsAtRead(p) # {})
      => /\ call[p].last # None
         /\ Val(call[p].last) \in RowsAtRead(p)
         /\ Val(call[p].last).created_at = LastInserted(p).created_at
         /\ AsGiven(Val(call[p].last))
         /\ Val(call[p].last).temperature = Round1(prov[Val(call[p].last).id].obs.temperature)
         /\ LastInsertedAlone(p) => call[p].last = Some(LastInserted(p))

\* A read returned the only row of its moment, whose temperature was given
\* with two decimals and is stored with one.
C14_Witness ==
  \E p \in Workers :
    /\ HasRead(p)
    /\ ~call[p].readfail
    /\ RowsAtRead(p) # {}
    /\ LastInsertedAlone(p)
    /\ call[p].last = Some(LastInserted(p))
    /\ LastInserted(p).temperature # prov[LastInserted(p).id].obs.temperature

\* C15: a success payload without wind.speed and clouds.all gives an
\* observation whose wind_speed and clouds are absent, not zero.
C15_AbsentNotZero ==
  \A i \in DOMAIN task :
    (Done(task[i]) /\ task[i].met = Some(HttpOk(cities[i], TRUE)))
      => /\ task[i].result.tag = "dict"
         /\ task[i].result.d.wind_speed = None
         /\ task[i].result.d.clouds = None

\* The request of task i ended without an observation.
FetchFailed(i) == Done(task[i]) /\ task[i].result.tag # "dict"

\* The cause of a failed request, in the words of the specification.
Cause(response) ==
  IF response.kind = "http"
  THEN IF response.status = 401 THEN "Unauthorized"
       ELSE IF response.status # 200 THEN "UpstreamError"
       ELSE "Transport"
  ELSE IF response.kind = "timeout" THEN "Timeout"
  ELSE "Transport"

\* The answer is a success status with a payload that parses.
SuccessAnswer(response) ==
  response.kind = "http" /\ response.status = 200 /\ response.body # None

\* fetch_city_weather returns an observation exactly for a success answer.
ObservationIffSuccess ==
  \A i \in DOMAIN task :
    Done(task[i]) => (task[i].result.tag = "dict" <=> SuccessAnswer(Val(task[i].met)))

Initialized == \E q \in Initers : init[q].done >= 1

\* A step of init_db by caller p.
InitStep(p) == init'[p] # init[p]

C17_SchemaAfterInit ==
  Initialized => (has_table /\ has_index)

C17_LaterCallsChangeNothing ==
  \A p \in Initers :
    (Initialized /\ InitStep(p))
      => /\ has_table' = has_table
         /\ has_index' = has_index
         /\ store' = store
         /\ nextId' = nextId
         /\ (faults' = faults => init'[p].result # Some("raised"))
         /\ init'[p].pc \in {"idle", "check_table", "check_index"}

\* C17: with init_db called one call at a time, once a call has returned
\* the table and the index exist, and every later call returns its engine
\* without an error of its own making, having only looked: the table, the
\* index and the stored rows are as they were.
C17_SequentialIdempotent ==
  []C17_SchemaAfterInit /\ [][C17_LaterCallsChangeNothing]_vars

\* A second call of init_db has returned its engine with rows in the store.
C17_Witness ==
  /\ store # {}
  /\ init["i1"].done + init["i2"].done >= 2
  /\ \E p \in Initers : init[p].pc = "idle" /\ init[p].result = Some("engine")
  /\ faults = 0

\* C18: with the database reachable, no call of init_db raises, however
\* the calls interleave.
C18_NoCallRaises ==
  faults = 0 => \A p \in Initers : init[p].result # Some("raised")

\* C19: a gated save whose last-record read failed inserts nothing and
\* ends with reason 'error' (save_weather_data has no parameter by which a
\* caller could ask for the insert to go ahead all the same).
C19_ReadFailureIsError ==
  /\ \A r \in store : prov[r.id].skip_if_fresh => ~prov[r.id].readfail
  /\ \A p \in Procs :
       (call[p].readfail /\ call[p].pc = "idle" /\ ret[p] # None)
         => Val(ret[p]).reason = "error"

C20_IdsDistinct ==
  /\ \A r1 \in store : \A r2 \in store : r1.id = r2.id => r1 = r2
  /\ \A r \in store : r.id < nextId
  /\ Cardinality(store) = Len(prov)

C20_RowsStay ==
  /\ store \subseteq store'
  /\ nextId' >= nextId
  /\ \A r \in store' \ store : r.id = nextId /\ nextId' = nextId + 1

\* C20: every row once stored stays in the store as it is, a step adds at
\* most one row, under an id never given before, and no two rows share
\* an id.
C20_AppendOnly == []C20_IdsDistinct /\ [][C20_RowsStay]_vars

\* The row the first run stored for city 1 is still there, as it was
\* stored, after the second run has stored another row for the city.
C20_Witness ==
  /\ Len(runLog) = 2
  /\ \E r1 \in store : \E r2 \in store :
       /\ Successive(r1, r2)
       /\ prov[r1.id].run = 1
       /\ prov[r2.id].run = 2
       /\ r1.created_at = 0
       /\ AsGiven(r1)

\* The call of caller p returns in this step.
Returns(p) == ret[p] = None /\ ret'[p] # None

C21_ErrorWritesNothing ==
  \A p \in Procs :
    (Returns(p) /\ Val(ret'[p]).reason = "error")
      => /\ ret'[p] = Some(ErrorResult)
         /\ store' = store
         /\ nextId' = nextId
         /\ prov' = prov

C21_RowsComeWithSaved ==
  store' # store
    => \E p \in Procs :
         /\ Returns(p)
         /\ ret'[p] = Some(SavedResult)
         /\ \E r \in store' : store' = store \cup {r} /\ r \notin store /\ prov'[r.id].by = p

\* C21: the step in which save_weather_data returns reason 'error' (with
\* saved and skipped false) leaves the rows as they were, and a row enters
\* the store only in the step in which its call returns 'saved': a call
\* that ends in 'error' has written nothing, in part or whole.
C21_NoPartialWrite == [][C21_ErrorWritesNothing /\ C21_RowsComeWithSaved]_vars

\* The gate let the call through, the commit failed: reason 'error', and
\* the store holds the rows of other calls only.
C21_Witness ==
  \E p \in Workers :
    /\ call[p].pc = "idle"
    /\ gate[p] # None
    /\ ~Val(gate[p]).out.is_fresh
    /\ ret[p] = Some(ErrorResult)
    /\ store # {}
    /\ \A r \in store : prov[r.id].by # p

\* --------------------------------------------------------------- C22
InFlight == { i \in DOMAIN task : task[i].st = "inflight" }

Waiting == { i \in DOMAIN task : task[i].st = "waiting" }

\* C22: at every moment of fetch_all_cities_async at most limit_per_host
\* (10) requests to the upstream host are in flight, also when the list
\* has more keys than that; a request in flight is one that was issued.
C22_InFlightCap ==
  /\ Cardinality(InFlight) <= limit_per_host
  /\ \A i \in InFlight : task[i].issued

\* The list has eleven keys, one request has been answered and the eleventh
\* took its connection: ten requests are in flight again.
C22_Witness ==
  /\ Len(cities) > limit_per_host
  /\ Cardinality(InFlight) = limit_per_host
  /\ Len(cities) \in InFlight
  /\ \E i \in DOMAIN task : Done(task[i])

\* --------------------------------------------------------------- C23
\* C23: a request waits for another key's request only beyond the
\* connector's limit. The first limit_per_host keys of a list have their
\* request issued when the gather() starts, so in a list of at most
\* limit_per_host keys no request ever waits; a later key waits only while
\* limit_per_host requests are in flight and takes the first connection
\* that comes free, unless the common timeout comes first.
C23_WaitOnlyBeyondCap ==
  /\ \A i \in DOMAIN task : i <= limit_per_host => task[i].issued
  /\ Len(cities) <= limit_per_host => Waiting = {}
  /\ \A i \in Waiting :
        /\ i > limit_per_host
        /\ ~task[i].issued
        /\ ~deadline => Cardinality(InFlight) = limit_per_host
  /\ \A i \in DOMAIN task :
        ~task[i].issued => (i \in Waiting \/ task[i].met = Some(TimedOut))

\* Eleven keys: the eleventh request waits while the ten before it are in
\* flight and none has finished.
C23_Witness ==
  /\ Len(cities) = limit_per_host + 1
  /\ ~deadline
  /\ Len(cities) \in Waiting
  /\ InFlight = 1..limit_per_host

\* C23 as the specification words it: no request waits for another key's
\* request, whatever the length of the list.
C23_Original == Waiting = {}

\* --------------------------------------------------------------- C24
SlowestRequest == Max({ latency[i] : i \in DOMAIN latency })

Min(a, b) == IF a <= b THEN a ELSE b

\* C24: for a list of two or more keys within limit_per_host, the time
\* fetch_all_cities_async took when the gather() returns is the latency of
\* the slowest request (or the timeout, if that request is slower still):
\* never more than the maximum of the latencies, whatever their sum.
C24_BoundedBySlowest ==
  (dagpc = "save" /\ Len(cities) >= 2 /\ Len(cities) <= limit_per_host)
    => /\ elapsed = Min(SlowestRequest, timeout)
       /\ elapsed <= SlowestRequest

\* Three keys answered after 1, 2 and 2 time units: the gather() returned
\* after 2, the sum of the latencies being 5.
C24_Witness ==
  /\ dagpc = "save"
  /\ latency = <<1, 2, 2>>
  /\ Len(weather_data_list) = 3
  /\ elapsed = 2
  /\ SumTo(latency, Len(latency)) > elapsed

\* --------------------------------------------------------------- C25
\* fetch_all_cities_async returns for every list, also one longer than
\* limit_per_host, when every request is answered or times out.
C25_EventuallyReturns == <>(dagpc = "save")

\* C25: when fetch_all_cities_async returns, the request of every key of
\* the list has been issued (once: no request is issued again).
C25_EveryKeyIssued ==
  dagpc = "save" => \A i \in DOMAIN task : task[i].issued

\* --------------------------------------------------------------- C26
\* What a coroutine can end with at the gather(): a dict, None, or the
\* exception it raised, collected as a result.
Outcomes == {"dict", "None", "Exception"}

\* C26: whatever each request met (a refusal, an error status, a timeout,
\* a transport error, an unreadable body, an exception raised in the
\* coroutine), the coroutine ends with an outcome of its own, and once all
\* have ended fetch_all_cities_async returns its list: no combination of
\* outcomes keeps it from returning.
C26_NothingThrowsAcrossJoin ==
  /\ \A i \in DOMAIN task :
        Done(task[i]) => /\ task[i].met # None
                         /\ task[i].result.tag \in Outcomes
                         /\ ~SuccessAnswer(Val(task[i].met)) => FetchFailed(i)
  /\ (dagpc = "parse" /\ Gathered(task)) => ENABLED GatherReturn
  /\ dagpc = "save" => Len(weather_data_list) = Cardinality(Succeeded)

\* Three keys: one coroutine raised, one request timed out, one was
\* answered with status 500, and the function returned an empty list.
C26_Witness ==
  /\ dagpc = "save"
  /\ Len(task) = 3
  /\ task[1].met = Some(Raised) /\ task[1].result = ExceptionResult
  /\ task[2].met = Some(TimedOut)
  /\ task[3].met = Some(HttpStatus(500))
  /\ weather_data_list = <<>>

\* --------------------------------------------------------------- C27
\* C27: a call of is_data_fresh, whatever it finds (no record, a fresh
\* one, a stale one, a query that fails), inserts no row and leaves the
\* table and the index as they were.
C27_GateNeverWrites ==
  [][IsDataFreshStep => UNCHANGED <<store, nextId, has_table, has_index>>]_vars

\* --------------------------------------------------------------- C28
\* C28: every element of the list fetch_all_cities_async returns is the
\* observation of a coroutine whose request was answered with status 200,
\* under the key that coroutine was given; a coroutine that failed, raised
\* or was cancelled has no element in the list.
C28_ElementsAreSuccesses ==
  dagpc = "save"
    => /\ \A k \in DOMAIN weather_data_list :
            \E i \in DOMAIN task :
              /\ SuccessAnswer(Val(task[i].met))
              /\ task[i].result = DictResult(weather_data_list[k])
              /\ task[i].result.d.city = cities[i]
       /\ Len(weather_data_list) = Cardinality({ i \in DOMAIN task : SuccessAnswer(Val(task[i].met)) })

\* --------------------------------------------------------------- C29
\* C29: save_weather_task has returned status 'success' only if the
\* save_weather_data it called returned saved = True; after a save that
\* was skipped as fresh or ended with reason 'error' the status is not
\* 'success'.
C29_SuccessMeansSaved ==
  \A p \in Workers :
    (call[p].kind = "celery" /\ call[p].pc = "idle" /\ ret[p] # None
       /\ status[p] = Some("success"))
      => Val(ret[p]).saved

\* --------------------------------------------------------------- C30
\* The rows the finished run k committed.
RowsOfRun(k) == { r \in store : prov[r.id].by = "dag" /\ prov[r.id].run = k }

\* C30: at the end of save_results_to_db every fetched observation has
\* ended in exactly one of three ways, saved, skipped as fresh, or failed
\* with reason 'error', and only the first two are counted: saved_count
\* plus skipped_count plus the failed saves is the number fetched, and
\* the saved_count the run returns is the number of rows it committed.
C30_RunAccounting ==
  /\ \A k \in DOMAIN runLog :
        LET e == runLog[k]
        IN /\ e.saved + e.skipped + Count(e.outcomes, "error") = Len(e.fetched)
           /\ e.saved + e.skipped <= Len(e.fetched)
           /\ Count(e.outcomes, "error") = 0 => e.saved + e.skipped = Len(e.fetched)
           /\ e.returned = e.saved
           /\ e.returned = Cardinality(RowsOfRun(k))
  /\ LoopEnded
       => /\ saved_count + skipped_count + Count(outcomes, "error") = Len(weather_data_list)
          /\ saved_count = Cardinality(RowsOfThisRun)

\* The second of two runs over two keys skipped the first key as fresh and
\* failed to save the second: it returned 0 with one skipped, of two.
C30_Witness ==
  /\ Len(runLog) = 2
  /\ runLog[1].outcomes = <<"saved", "saved">>
  /\ runLog[2].outcomes = <<"skipped_fresh", "error">>
  /\ runLog[2].returned = 0
  /\ runLog[2].skipped = 1
  /\ Cardinality(store) = 2

\* C30 as the specification words it: every fetched observation is
\* counted as saved or as skipped.
C30_Original ==
  \A k \in DOMAIN runLog :
    runLog[k].saved + runLog[k].skipped = Len(runLog[k].fetched)

====
